---- MODULE Spec2Model ----
(***************************************************************************)
(* Model of app.py: the /api/register intake route, the hourly             *)
(* process_daily_sequence job and get_fresh_learny_token.                  *)
(*                                                                         *)
(* The durable table `users` is a sequence of rows (the row id is the      *)
(* index).  A running job instance keeps its own SQLAlchemy session: the   *)
(* objects it loaded and their in-memory status, which reach the table     *)
(* only at db.session.commit().                                            *)
(***************************************************************************)
EXTENDS Integers, Sequences, FiniteSets, TLC

\* ---- bounds of the model ------------------------------------------------
MaxUsers == 2       \* rows the table may hold
MaxDay == 3         \* calendar days are 0..MaxDay
MaxSlots == 2       \* worker threads of the scheduler's executor that are modelled

\* ---- program constants --------------------------------------------------
\* variant: two instances of the job may run together
max_instances_two == 1 + 1
max_instances == 1  \* concurrently running instances allowed for the job

Days == 0..MaxDay
Slots == 1..MaxSlots
None == "None"

\* ---- inputs -------------------------------------------------------------
\* request.json of /api/register: no body, or a dict with some keys.  The
\* text of session_date is either "YYYY-MM-DD" text denoting a day, or not.
Keys == {"email", "session_date", "firstname", "lastname", "phone"}
DateTexts == {<<"ymd", d>> : d \in Days} \cup {<<"bad", 0>>}
NoBody == [keys |-> {"<none>"}, session_date |-> <<"bad", 0>>]
Payloads == {NoBody} \cup [keys : SUBSET Keys, session_date : DateTexts]

\* answers of the token endpoint
NoResp == [raised |-> FALSE, status_code |-> 0, body |-> "none"]
TokenResponses ==
    {[raised |-> TRUE, status_code |-> 0, body |-> "none"]} \cup
    [raised : {FALSE}, status_code : {200},
     body : {"not_json", "no_token", "empty_token", "token"}] \cup
    {[raised |-> FALSE, status_code |-> 403, body |-> "token"]}

\* answers of the contact endpoint
EnrollResponses ==
    {[raised |-> TRUE, status_code |-> 0]} \cup
    [raised : {FALSE}, status_code : {200, 201, 403}]

VARIABLES
    users,      \* the table: Seq of [session_date, status]
    today,      \* datetime.now().date()
    jobs,       \* per executor slot: the running instance of the job, or the
                \* last one that ended there (pc = "idle") and how it ended
    response,   \* HTTP status of the last observed /api/register answer (0: none)
    enrolled,   \* the contact endpoint's side: rows it has accepted (200/201)
    request     \* the last /api/register request, where the intake is observed

vars == <<users, today, jobs, response, enrolled, request>>

NoRequest == [received |-> FALSE, data |-> NoBody, commit_ok |-> TRUE]

IdleJob ==
    [pc |-> "idle", end |-> "none", started |-> 0, target_date |-> 0,
     snapshot |-> <<>>, users_to_process |-> <<>>, session |-> <<>>,
     token |-> None, tokresp |-> NoResp, token_calls |-> 0,
     calls |-> <<>>, auth |-> <<>>, outcome |-> <<>>,
     missed |-> FALSE, escaped |-> FALSE]

\* an instance that ended: what the slot remembers of it
Ended(job, how) == [job EXCEPT !.pc = "idle", !.end = how]

Range(s) == {s[k] : k \in DOMAIN s}

\* every ordering of a finite set as a sequence
Orderings(S) ==
    {s \in [1..Cardinality(S) -> S] : \A a, b \in 1..Cardinality(S) : a # b => s[a] # s[b]}

\* variants of the query with a plausible slip
find_eligible_any_status(table, target) ==
    {r \in DOMAIN table : table[r].session_date <= target}
find_eligible_strict(table, target) ==
    {r \in DOMAIN table : table[r].session_date < target /\ table[r].status = "pending"}
find_eligible_yesterday(table, target) ==
    {r \in DOMAIN table : table[r].session_date = target /\ table[r].status = "pending"}

\* ---- User.query.filter(session_date <= target_date, status == 'pending') --
find_eligible(table, target) ==
    {r \in DOMAIN table : table[r].session_date <= target /\ table[r].status = "pending"}

\* ---- get_fresh_learny_token ----------------------------------------------
access_token(body) ==
    CASE body = "token" -> "tok"
      [] body = "empty_token" -> ""
      [] OTHER -> None

\* variant: the HTTP status of the token answer is not looked at
get_fresh_learny_token_any_status(resp) ==
    IF resp.raised THEN None
    ELSE IF resp.body = "not_json" THEN None
    ELSE IF access_token(resp.body) \notin {None, ""} THEN access_token(resp.body)
    ELSE None

get_fresh_learny_token(resp) ==
    IF resp.raised THEN None
    ELSE IF resp.status_code = 200
         THEN IF resp.body = "not_json" THEN None
              ELSE IF access_token(resp.body) \notin {None, ""}
                   THEN access_token(resp.body)
                   ELSE None
         ELSE None

\* variants: a refusal leaves the record pending; an exception marks it 'error'
status_after_retry_refused(old, r) ==
    IF r.raised THEN old
    ELSE IF r.status_code \in {200, 201} THEN "processed" ELSE old
status_after_error_on_exception(old, r) ==
    IF r.raised THEN "error"
    ELSE IF r.status_code \in {200, 201} THEN "processed" ELSE "error"
status_after_only_200(old, r) ==
    IF r.raised THEN old
    ELSE IF r.status_code = 200 THEN "processed" ELSE "error"
status_after_failed(old, r) ==
    IF r.raised THEN old
    ELSE IF r.status_code \in {200, 201} THEN "processed" ELSE "failed"

\* ---- the status a record's object gets from its contact-endpoint answer ---
status_after(old, r) ==
    IF r.raised THEN old
    ELSE IF r.status_code \in {200, 201} THEN "processed" ELSE "error"

\* ---- datetime.strptime(text, '%Y-%m-%d').date() ---------------------------
strptime_ok(text) == text[1] = "ymd"
strptime(text) == text[2]

\* ---- /api/register --------------------------------------------------------
register_status(data, commit_ok) ==
    IF data = NoBody \/ data.keys = {} \/ "email" \notin data.keys
       \/ "session_date" \notin data.keys
    THEN 400
    ELSE IF ~strptime_ok(data.session_date) THEN 500
    ELSE IF "firstname" \notin data.keys \/ "lastname" \notin data.keys THEN 500
    ELSE IF ~commit_ok THEN 500
    ELSE 201

register(data, commit_ok) ==
    /\ Len(users) < MaxUsers
    /\ users' = IF register_status(data, commit_ok) = 201
                THEN Append(users, [session_date |-> strptime(data.session_date),
                                    status |-> "pending"])
                ELSE users
    /\ UNCHANGED <<today, jobs, enrolled>>

\* ---- the scheduler's interval trigger -------------------------------------
Running == {i \in Slots : jobs[i].pc # "idle"}
FreeSlot == CHOOSE i \in Slots \ Running : \A j \in Slots \ Running : i <= j

\* variant: the early return on an empty result is missing
ScanNoEarlyReturn(i, order) ==
    LET target == today - 1
        job == [IdleJob EXCEPT !.started = today, !.target_date = target,
                               !.snapshot = users, !.users_to_process = order,
                               !.session = [k \in DOMAIN order |-> users[order[k]].status]]
    IN /\ jobs' = [jobs EXCEPT ![i] = [job EXCEPT !.pc = "token"]]
       /\ UNCHANGED <<users, today, response, enrolled, request>>

\* variant: the token of the previous instance is kept and used again
ScanCachedToken(i, order) ==
    LET target == today - 1
        job == [IdleJob EXCEPT !.started = today, !.target_date = target,
                               !.snapshot = users, !.users_to_process = order,
                               !.session = [k \in DOMAIN order |-> users[order[k]].status],
                               !.token = jobs[i].token]
    IN /\ jobs' = [jobs EXCEPT ![i] =
                     IF order = <<>> THEN Ended(job, "empty")
                     ELSE [job EXCEPT !.pc = IF jobs[i].token \in {None, ""}
                                            THEN "token" ELSE "loop"]]
       /\ UNCHANGED <<users, today, response, enrolled, request>>

\* lines 84-100: start of an instance, the query, and the early return
Scan(i, order) ==
    LET target == today - 1
        job == [IdleJob EXCEPT !.started = today, !.target_date = target,
                               !.snapshot = users, !.users_to_process = order,
                               !.session = [k \in DOMAIN order |-> users[order[k]].status]]
    IN /\ jobs' = [jobs EXCEPT ![i] = IF order = <<>> THEN Ended(job, "empty")
                                      ELSE [job EXCEPT !.pc = "token"]]
       /\ UNCHANGED <<users, today, response, enrolled, request>>

process_daily_sequence ==
    /\ Cardinality(Running) < max_instances
    /\ Cardinality(Running) < MaxSlots
    /\ \E order \in Orderings(find_eligible(users, today - 1)) : Scan(FreeSlot, order)

\* the trigger fires while max_instances instances are running: the run is skipped
TriggerSkipped ==
    /\ Cardinality(Running) >= max_instances
    /\ \E i \in Running :
          /\ ~jobs[i].missed
          /\ jobs' = [jobs EXCEPT ![i].missed = TRUE]
    /\ UNCHANGED <<users, today, response, enrolled, request>>

\* lines 103-106
TokenStep(i, resp) ==
    LET token == get_fresh_learny_token(resp)
        job == [jobs[i] EXCEPT !.tokresp = resp, !.token = token,
                               !.token_calls = jobs[i].token_calls + 1]
    IN /\ jobs[i].pc = "token"
       /\ jobs' = [jobs EXCEPT ![i] = IF token \in {None, ""} THEN Ended(job, "notoken")
                                      ELSE [job EXCEPT !.pc = "loop"]]
       /\ UNCHANGED <<users, today, response, enrolled, request>>

GetToken == \E i \in Slots, resp \in TokenResponses : TokenStep(i, resp)

\* variant: the status change is committed inside the loop
EnrollStepAutocommit(i, r) ==
    LET job == jobs[i]
        k == Len(job.calls) + 1
    IN /\ job.pc = "loop"
       /\ k <= Len(job.users_to_process)
       /\ jobs' = [jobs EXCEPT ![i] =
                     [job EXCEPT !.calls = Append(job.calls, job.users_to_process[k]),
                                 !.auth = Append(job.auth, job.token),
                                 !.outcome = Append(job.outcome, r),
                                 !.session[k] = status_after(job.session[k], r),
                                 !.pc = IF k = Len(job.users_to_process)
                                        THEN "commit" ELSE "loop"]]
       /\ users' = [users EXCEPT ![job.users_to_process[k]].status =
                                     status_after(job.session[k], r)]
       /\ enrolled' = IF ~r.raised /\ r.status_code \in {200, 201}
                      THEN enrolled \cup {job.users_to_process[k]} ELSE enrolled
       /\ UNCHANGED <<today, response, request>>

\* variant: the loop stops at the first call that does not succeed
EnrollStepBreakOnFailure(i, r) ==
    LET job == jobs[i]
        k == Len(job.calls) + 1
    IN /\ job.pc = "loop"
       /\ k <= Len(job.users_to_process)
       /\ jobs' = [jobs EXCEPT ![i] =
                     [job EXCEPT !.calls = Append(job.calls, job.users_to_process[k]),
                                 !.auth = Append(job.auth, job.token),
                                 !.outcome = Append(job.outcome, r),
                                 !.session[k] = status_after(job.session[k], r),
                                 !.pc = IF k = Len(job.users_to_process)
                                           \/ r.raised \/ r.status_code \notin {200, 201}
                                        THEN "commit" ELSE "loop"]]
       /\ enrolled' = IF ~r.raised /\ r.status_code \in {200, 201}
                      THEN enrolled \cup {job.users_to_process[k]} ELSE enrolled
       /\ UNCHANGED <<users, today, response, request>>

\* lines 108-136: one iteration of the for loop
EnrollStep(i, r) ==
    LET job == jobs[i]
        k == Len(job.calls) + 1
    IN /\ job.pc = "loop"
       /\ k <= Len(job.users_to_process)
       /\ jobs' = [jobs EXCEPT ![i] =
                     [job EXCEPT !.calls = Append(job.calls, job.users_to_process[k]),
                                 !.auth = Append(job.auth, job.token),
                                 !.outcome = Append(job.outcome, r),
                                 !.session[k] = status_after(job.session[k], r),
                                 !.pc = IF k = Len(job.users_to_process)
                                        THEN "commit" ELSE "loop"]]
       /\ enrolled' = IF ~r.raised /\ r.status_code \in {200, 201}
                      THEN enrolled \cup {job.users_to_process[k]} ELSE enrolled
       /\ UNCHANGED <<users, today, response, request>>

Enroll == \E i \in Slots, r \in EnrollResponses : EnrollStep(i, r)

\* variant: the commit writes the table back as the instance read it
FlushedFromSnapshot(job, table) ==
    [r \in DOMAIN job.snapshot |->
        IF \E k \in DOMAIN job.users_to_process : job.users_to_process[k] = r
        THEN [job.snapshot[r] EXCEPT !.status =
                 job.session[CHOOSE k \in DOMAIN job.users_to_process :
                                 job.users_to_process[k] = r]]
        ELSE job.snapshot[r]]

\* line 139: db.session.commit() writes the objects whose status was changed
Flushed(job, table) ==
    [r \in DOMAIN table |->
        IF \E k \in DOMAIN job.users_to_process :
               job.users_to_process[k] = r /\ job.session[k] # job.snapshot[r].status
        THEN [table[r] EXCEPT !.status =
                 job.session[CHOOSE k \in DOMAIN job.users_to_process :
                                 job.users_to_process[k] = r]]
        ELSE table[r]]

\* variant: a failed commit leaves the rows it had already written
CommitStepNoRollback(i, ok) ==
    /\ jobs[i].pc = "commit"
    /\ users' = Flushed(jobs[i], users)
    /\ jobs' = [jobs EXCEPT ![i] =
                  IF ok THEN Ended(jobs[i], "committed")
                  ELSE [Ended(jobs[i], "commitfail") EXCEPT !.escaped = TRUE]]
    /\ UNCHANGED <<today, response, enrolled, request>>

CommitStep(i, ok) ==
    /\ jobs[i].pc = "commit"
    /\ users' = IF ok THEN Flushed(jobs[i], users) ELSE users
    /\ jobs' = [jobs EXCEPT ![i] =
                  IF ok THEN Ended(jobs[i], "committed")
                  ELSE [Ended(jobs[i], "commitfail") EXCEPT !.escaped = TRUE]]
    /\ UNCHANGED <<today, response, enrolled, request>>

Commit == \E i \in Slots, ok \in BOOLEAN : CommitStep(i, ok)

\* the process dies while an instance is in flight; its session is lost
Crash ==
    /\ Running # {}
    /\ jobs' = [i \in Slots |-> IF i \in Running THEN Ended(jobs[i], "crashed") ELSE jobs[i]]
    /\ UNCHANGED <<users, today, response, enrolled, request>>

\* the calendar day changes
Tick ==
    /\ today < MaxDay
    /\ today' = today + 1
    /\ UNCHANGED <<users, jobs, response, enrolled, request>>

\* the route as the job sees it: only the table changes
Register ==
    \E data \in Payloads, ok \in BOOLEAN :
        register(data, ok) /\ UNCHANGED <<response, request>>

\* the same handler as its caller sees it: the request and the answer it got
Intake ==
    \E data \in Payloads, ok \in BOOLEAN :
        /\ register(data, ok)
        /\ response' = register_status(data, ok)
        /\ request' = [received |-> TRUE, data |-> data, commit_ok |-> ok]

Init ==
    /\ users = <<>>
    /\ today = 0
    /\ jobs = [i \in Slots |-> IdleJob]
    /\ response = 0
    /\ enrolled = {}
    /\ request = NoRequest

Next ==
    \/ Register
    \/ process_daily_sequence
    \/ TriggerSkipped
    \/ GetToken
    \/ Enroll
    \/ Commit
    \/ Crash
    \/ Tick

Spec == Init /\ [][Next]_vars

\* ---- progress ---------------------------------------------------------------
\* The interval trigger keeps firing and every call of an instance returns
\* (each request has timeout=15), so an instance in flight goes on.  The
\* endpoints and the store are not down for ever: a token request that can be
\* answered with a token infinitely often is, and so is the contact call of
\* the k-th record and the commit of an instance whose calls so far were all
\* answered.
GoodToken ==
    \E i \in Slots, resp \in TokenResponses :
        /\ ~resp.raised /\ resp.status_code = 200 /\ resp.body = "token"
        /\ TokenStep(i, resp)

AllAnswered(job) == \A m \in DOMAIN job.outcome : ~job.outcome[m].raised

GoodEnroll(k) ==
    \E i \in Slots, r \in EnrollResponses :
        /\ ~r.raised
        /\ Len(jobs[i].calls) + 1 = k
        /\ AllAnswered(jobs[i])
        /\ EnrollStep(i, r)

GoodCommit ==
    \E i \in Slots : AllAnswered(jobs[i]) /\ CommitStep(i, TRUE)

LiveSpec ==
    /\ Spec
    /\ WF_vars(process_daily_sequence)
    /\ WF_vars(GetToken)
    /\ WF_vars(Enroll)
    /\ WF_vars(Commit)
    /\ SF_vars(GoodToken)
    /\ \A k \in 1..MaxUsers : SF_vars(GoodEnroll(k))
    /\ SF_vars(GoodCommit)

\* the intake route alone, every request observed
SpecIntake == Init /\ [][Intake]_vars

\* ---- vocabulary of the properties -----------------------------------------
Last(s) == s[Len(s)]
NoDuplicates(s) == \A a, b \in DOMAIN s : a # b => s[a] # s[b]
InFlight(i) == jobs[i].pc \in {"token", "loop", "commit"}

\* this step starts a new instance in slot i
Starts(i) == jobs[i].pc = "idle" /\ jobs'[i] # jobs[i]
\* this step posts one record of instance i to the contact endpoint
Posts(i) == jobs[i].pc = "loop" /\ Len(jobs'[i].calls) = Len(jobs[i].calls) + 1
\* this step ends instance i in the given way
EndsAs(i, how) == InFlight(i) /\ jobs'[i].pc = "idle" /\ jobs'[i].end = how

\* what the contact endpoint's answer was
Accepted(o) == ~o.raised /\ o.status_code \in {200, 201}
Refused(o) == ~o.raised /\ o.status_code \notin {200, 201}
NotCompleted(o) == o.raised

\* what the token endpoint's answer was
TokenFailure(resp) ==
    \/ resp.raised
    \/ resp.status_code # 200
    \/ resp.body \in {"not_json", "no_token", "empty_token"}

\* a job that got through its loop has posted every record it selected
SelectedArePosted ==
    \A i \in Slots : jobs[i].pc = "commit" =>
        Range(jobs[i].calls) = Range(jobs[i].users_to_process)

\* C1: once a record's committed status is 'processed', no step changes it
\* and no instance posts that record to the contact endpoint again.
C1_ProcessedIsTerminal ==
    [][ /\ \A r \in DOMAIN users : users[r].status = "processed" =>
              r \in DOMAIN users' /\ users'[r].status = "processed"
        /\ \A i \in Slots : Posts(i) =>
              users[Last(jobs'[i].calls)].status # "processed" ]_vars

C1_Witness ==
    \E i \in Slots, r \in DOMAIN users :
        /\ jobs[i].pc \in {"loop", "commit"}
        /\ jobs[i].calls # <<>>
        /\ users[r].status = "processed"
        /\ users[r].session_date <= jobs[i].target_date
        /\ r \notin Range(jobs[i].calls)

\* C2: a record whose submission was answered with a status other than 200
\* or 201 is 'error' in the table once the pass has committed; an 'error'
\* record stays 'error' and is in no running instance's selection.
C2_RefusedIsError ==
    [][ /\ \A i \in Slots : EndsAs(i, "committed") =>
              \A k \in DOMAIN jobs[i].outcome : Refused(jobs[i].outcome[k]) =>
                  users'[jobs[i].users_to_process[k]].status = "error"
        /\ \A r \in DOMAIN users : users[r].status = "error" =>
              r \in DOMAIN users' /\ users'[r].status = "error"
        /\ \A i \in Slots : jobs'[i].pc # "idle" =>
              \A r \in Range(jobs'[i].users_to_process) : users'[r].status # "error" ]_vars

C2_Witness ==
    \E i \in Slots, r \in DOMAIN users :
        /\ jobs[i].pc \in {"token", "loop", "commit"}
        /\ users[r].status = "error"
        /\ users[r].session_date <= jobs[i].target_date
        /\ r \notin Range(jobs[i].users_to_process)

\* C3: when the token answer is a failure the instance ends there: it has
\* posted nothing, the table is unchanged, every selected record is still
\* 'pending' and the next instance selects all of them again.
C3_TokenFailureAborts ==
    [][ /\ \A i \in Slots :
              (jobs[i].pc = "token" /\ jobs'[i].tokresp # NoResp
                 /\ TokenFailure(jobs'[i].tokresp)) =>
                  /\ jobs'[i].pc = "idle" /\ jobs'[i].end = "notoken"
                  /\ jobs'[i].calls = <<>>
                  /\ jobs'[i].session = jobs[i].session
                  /\ users' = users
        /\ \A i \in Slots : jobs'[i].calls # <<>> =>
              jobs'[i].tokresp # NoResp /\ ~TokenFailure(jobs'[i].tokresp)
        /\ \A i \in Slots : (jobs'[i].pc = "idle" /\ jobs'[i].end = "notoken") =>
              \A r \in Range(jobs'[i].users_to_process) : users'[r].status = "pending"
        /\ \A i, j \in Slots :
              (jobs[i].pc = "idle" /\ jobs[i].end = "notoken" /\ Starts(j)) =>
                  Range(jobs[i].users_to_process) \subseteq Range(jobs'[j].users_to_process) ]_vars

C3_Witness ==
    \E i \in Slots :
        /\ jobs[i].pc = "idle" /\ jobs[i].end = "notoken"
        /\ jobs[i].tokresp.status_code = 403
        /\ Len(jobs[i].users_to_process) = 2

\* C4: a record whose contact call raised keeps status 'pending' in the
\* instance's session, is 'pending' in the table after the commit, is selected
\* by the next instance, and an instance that got through its loop has
\* posted every record it selected.
C4_NetworkFailureStaysPending ==
    [][ /\ \A i \in Slots : \A k \in DOMAIN jobs'[i].outcome :
              NotCompleted(jobs'[i].outcome[k]) => jobs'[i].session[k] = "pending"
        /\ \A i \in Slots : (EndsAs(i, "committed") \/ EndsAs(i, "commitfail")) =>
              \A k \in DOMAIN jobs[i].outcome : NotCompleted(jobs[i].outcome[k]) =>
                  users'[jobs[i].users_to_process[k]].status = "pending"
        /\ \A i, j \in Slots :
              (jobs[i].pc = "idle" /\ jobs[i].end = "committed" /\ Starts(j)) =>
                  \A k \in DOMAIN jobs[i].outcome : NotCompleted(jobs[i].outcome[k]) =>
                      jobs[i].users_to_process[k] \in Range(jobs'[j].users_to_process)
        /\ SelectedArePosted' ]_vars

C4_Witness ==
    \E i \in Slots : \E k \in DOMAIN jobs[i].outcome :
        /\ jobs[i].pc = "idle" /\ jobs[i].end = "committed"
        /\ NotCompleted(jobs[i].outcome[k])
        /\ users[jobs[i].users_to_process[k]].status = "pending"
        /\ \E m \in DOMAIN jobs[i].outcome : Accepted(jobs[i].outcome[m])

\* C5: an instance that starts when no record is pending with
\* session_date <= today - 1 ends at once: no token request, no contact
\* call, and the table is unchanged.
C5_EmptyPassDoesNothing ==
    [][ \A i \in Slots :
           (Starts(i) /\ ~\E r \in DOMAIN users :
                            users[r].status = "pending" /\ users[r].session_date <= today - 1) =>
               /\ jobs'[i].pc = "idle" /\ jobs'[i].end = "empty"
               /\ jobs'[i].tokresp = NoResp /\ jobs'[i].token = None
               /\ jobs'[i].calls = <<>>
               /\ users' = users ]_vars

C5_Witness ==
    \E i \in Slots :
        /\ jobs[i].pc = "idle" /\ jobs[i].end = "empty"
        /\ \E r \in DOMAIN users : users[r].status = "processed"
        /\ \E r \in DOMAIN users : users[r].status = "pending"

\* C6: the records an instance posts are records that were, at its query,
\* 'pending' with session_date <= (day of the query) - 1, none is posted
\* twice, and an instance that got through its loop has posted all of them.
EligibleAtQuery(job) ==
    {r \in DOMAIN job.snapshot :
        job.snapshot[r].status = "pending" /\ job.snapshot[r].session_date <= job.started - 1}

C6_PostsExactlyEligible ==
    \A i \in Slots :
        /\ Range(jobs[i].calls) \subseteq EligibleAtQuery(jobs[i])
        /\ NoDuplicates(jobs[i].calls)
        /\ (jobs[i].pc = "commit" \/ jobs[i].end \in {"committed", "commitfail"}) =>
              Range(jobs[i].calls) = EligibleAtQuery(jobs[i])

C6_Witness ==
    \E i \in Slots :
        /\ jobs[i].pc = "commit"
        /\ jobs[i].calls # <<>>
        /\ \E r \in DOMAIN jobs[i].snapshot :
              r \notin Range(jobs[i].calls) /\ jobs[i].snapshot[r].status = "pending"

\* C7: a pending record whose session_date + 1 has been reached is selected
\* by every instance that starts, whatever the gap since its session date,
\* and it stays eligible until its status is 'processed' or 'error'.
Eligible(table, day, r) ==
    table[r].status = "pending" /\ table[r].session_date + 1 <= day

C7_EligibilityMonotonic ==
    [][ /\ \A i \in Slots : Starts(i) =>
              \A r \in DOMAIN users : Eligible(users, today, r) =>
                  r \in Range(jobs'[i].users_to_process)
        /\ \A r \in DOMAIN users : Eligible(users, today, r) =>
              \/ Eligible(users', today', r)
              \/ users'[r].status \in {"processed", "error"} ]_vars

C7_Witness ==
    \E i \in Slots : \E r \in Range(jobs[i].users_to_process) :
        /\ InFlight(i)
        /\ users[r].session_date + 3 <= jobs[i].started

\* C8: at no time are two instances of process_daily_sequence in flight, and
\* no record is in the selection of two instances in flight.
C8_NoOverlap ==
    /\ Cardinality({i \in Slots : InFlight(i)}) <= 1
    /\ \A i, j \in Slots : (i # j /\ InFlight(i) /\ InFlight(j)) =>
          Range(jobs[i].users_to_process) \cap Range(jobs[j].users_to_process) = {}

C8_Witness ==
    \E i \in Slots : jobs[i].pc = "loop" /\ jobs[i].missed /\ jobs[i].calls # <<>>

\* C9: while an instance is in flight none of its status changes is in the
\* table; a step changes the table rows of its selection only by the
\* successful commit, which writes all of them together.
C9_AtomicCommit ==
    [][ \A i \in Slots : InFlight(i) =>
           /\ \A k \in DOMAIN jobs[i].users_to_process :
                 users[jobs[i].users_to_process[k]].status = "pending"
           /\ \/ \A k \in DOMAIN jobs[i].users_to_process :
                    users'[jobs[i].users_to_process[k]] = users[jobs[i].users_to_process[k]]
              \/ /\ EndsAs(i, "committed")
                 /\ \A k \in DOMAIN jobs[i].users_to_process :
                       users'[jobs[i].users_to_process[k]].status = jobs[i].session[k] ]_vars

C9_Witness ==
    \E i \in Slots :
        /\ jobs[i].pc = "idle" /\ jobs[i].end = "committed"
        /\ Len(jobs[i].users_to_process) = 2
        /\ \A k \in DOMAIN jobs[i].users_to_process :
              /\ jobs[i].session[k] # "pending"
              /\ users[jobs[i].users_to_process[k]].status = jobs[i].session[k]

\* C10: a crash of an instance in flight leaves the table as it was: every
\* record it selected is 'pending', and the first instance started after
\* the crash selects all of them again.
C10_CrashLosesNoRecord ==
    [][ /\ \A i \in Slots : EndsAs(i, "crashed") =>
              /\ users' = users
              /\ \A r \in Range(jobs[i].users_to_process) : users'[r].status = "pending"
        /\ \A i, j \in Slots :
              (jobs[i].pc = "idle" /\ jobs[i].end = "crashed" /\ Starts(j)) =>
                  /\ Range(jobs[i].users_to_process) \subseteq Range(jobs'[j].users_to_process)
                  /\ jobs'[j].pc = "token" ]_vars

C10_Witness ==
    \E i \in Slots :
        /\ jobs[i].pc = "idle" /\ jobs[i].end = "crashed"
        /\ Len(jobs[i].calls) = 2
        /\ \E k \in DOMAIN jobs[i].outcome : Accepted(jobs[i].outcome[k])
        /\ \A r \in Range(jobs[i].users_to_process) : users[r].status = "pending"

\* C11: when the commit fails the table is as it was before the pass: every
\* selected record is 'pending', and the next instance selects all of them
\* again with a fresh session in which each is 'pending'.
C11_CommitFailureLeavesPending ==
    [][ /\ \A i \in Slots : EndsAs(i, "commitfail") =>
              /\ users' = users
              /\ \A r \in Range(jobs[i].users_to_process) : users'[r].status = "pending"
        /\ \A i, j \in Slots :
              (jobs[i].pc = "idle" /\ jobs[i].end = "commitfail" /\ Starts(j)) =>
                  /\ Range(jobs[i].users_to_process) \subseteq Range(jobs'[j].users_to_process)
                  /\ \A k \in DOMAIN jobs'[j].session : jobs'[j].session[k] = "pending" ]_vars

C11_Witness ==
    \E i \in Slots : \E k \in DOMAIN jobs[i].session :
        /\ jobs[i].pc = "idle" /\ jobs[i].end = "commitfail"
        /\ jobs[i].session[k] \in {"processed", "error"}
        /\ users[jobs[i].users_to_process[k]].status = "pending"

\* C12: whatever fails inside an instance (token, contact call, commit), no
\* exception leaves process_daily_sequence: every instance that has ended,
\* ended by a return.
C12_NoFailureEscapes ==
    \A i \in Slots :
        (jobs[i].pc = "idle" /\ jobs[i].end \in {"empty", "notoken", "committed", "commitfail"}) =>
            ~jobs[i].escaped

\* a record the contact endpoint has accepted, whose acceptance is neither in
\* the table nor in the session of an instance in flight
Lost(table, js, acc, r) ==
    /\ r \in acc
    /\ table[r].status = "pending"
    /\ ~\E i \in Slots : \E k \in DOMAIN js[i].outcome :
            /\ js[i].pc \in {"token", "loop", "commit"}
            /\ js[i].users_to_process[k] = r
            /\ ~js[i].outcome[k].raised /\ js[i].outcome[k].status_code \in {200, 201}

\* C13 as claimed: the contact endpoint never accepts (200/201) a record it
\* has accepted before.
C13_NeverEnrolledTwice ==
    [][ \A i \in Slots :
           (Posts(i) /\ Accepted(Last(jobs'[i].outcome))) =>
               Last(jobs'[i].calls) \notin enrolled ]_vars

\* C13 as amended: a commit records every acceptance of its pass as
\* 'processed'; an acceptance gets lost only by a crash or a failed commit;
\* and a record already accepted is accepted again only if that acceptance
\* was lost.
C13_EnrolledAgainOnlyAfterLoss ==
    [][ /\ \A i \in Slots : EndsAs(i, "committed") =>
              \A k \in DOMAIN jobs[i].outcome : Accepted(jobs[i].outcome[k]) =>
                  users'[jobs[i].users_to_process[k]].status = "processed"
        /\ \A r \in DOMAIN users :
              (~Lost(users, jobs, enrolled, r) /\ Lost(users', jobs', enrolled', r)) =>
                  \E i \in Slots : EndsAs(i, "crashed") \/ EndsAs(i, "commitfail")
        /\ \A i \in Slots :
              (Posts(i) /\ Last(jobs'[i].calls) \in enrolled) =>
                  Lost(users, jobs, enrolled, Last(jobs'[i].calls)) ]_vars

C13_Witness ==
    \E i \in Slots, r \in DOMAIN users :
        /\ jobs[i].pc = "loop"
        /\ jobs[i].calls # <<>>
        /\ r \in Range(jobs[i].users_to_process) \ Range(jobs[i].calls)
        /\ Lost(users, jobs, enrolled, r)

\* what a request carries
HasRequired(data) ==
    data # NoBody /\ "email" \in data.keys /\ "session_date" \in data.keys
WellFormedDate(data) == data.session_date[1] = "ymd"

\* C14: a request without body, without email, without session_date, or with
\* a session_date that is not a YYYY-MM-DD date, is answered 400 and the table
\* is unchanged.
C14_InvalidRequestIs400 ==
    [][ (request'.received
           /\ (~HasRequired(request'.data) \/ ~WellFormedDate(request'.data))) =>
            /\ response' = 400
            /\ users' = users ]_vars

\* C15: a request with an email and a well-formed session_date, whatever
\* optional fields it carries, is answered 201 and appends exactly one
\* 'pending' row (the store's commit succeeding).
C15_ValidRequestIs201 ==
    [][ (request'.received /\ request'.commit_ok
           /\ HasRequired(request'.data) /\ WellFormedDate(request'.data)) =>
            /\ response' = 201
            /\ users' = Append(users, [session_date |-> request'.data.session_date[2],
                                       status |-> "pending"]) ]_vars

\* C16: an instance asks for a token at most once, only with a non-empty
\* selection and before its first contact call; every contact call carries
\* the token of that instance's own token answer, and an instance starts
\* without a token.
C16_OneFreshTokenPerPass ==
    \A i \in Slots :
        /\ jobs[i].token_calls <= 1
        /\ jobs[i].token_calls = 1 => jobs[i].users_to_process # <<>>
        /\ jobs[i].pc = "token" => (jobs[i].token_calls = 0 /\ jobs[i].token = None)
        /\ jobs[i].calls # <<>> =>
              (jobs[i].token_calls = 1 /\ jobs[i].tokresp # NoResp)
        /\ Len(jobs[i].auth) = Len(jobs[i].calls)
        /\ \A k \in DOMAIN jobs[i].auth :
              /\ jobs[i].auth[k] \notin {None, ""}
              /\ jobs[i].auth[k] = access_token(jobs[i].tokresp.body)

C16_Witness ==
    \E i \in Slots :
        /\ jobs[i].pc = "commit"
        /\ Len(jobs[i].auth) >= 1
        /\ jobs[i].token_calls = 1
        /\ \E r \in DOMAIN users : users[r].status \in {"processed", "error"}

\* C17: in an instance each record's status is fixed by its own answer alone
\* ('processed' for 200/201, 'error' for any other status, 'pending' when the
\* call raised or was not made yet), whatever the other records' answers and
\* the order; the loop goes on to the last record after any answer, and the
\* commit writes exactly these statuses.
OwnStatus(o) ==
    IF NotCompleted(o) THEN "pending" ELSE IF Accepted(o) THEN "processed" ELSE "error"

C17_StatusByOwnOutcome ==
    \A i \in Slots :
        /\ \A k \in DOMAIN jobs[i].session :
              jobs[i].session[k] = IF k \in DOMAIN jobs[i].outcome
                                   THEN OwnStatus(jobs[i].outcome[k]) ELSE "pending"
        /\ jobs[i].pc = "loop" => Len(jobs[i].outcome) < Len(jobs[i].users_to_process)
        /\ jobs[i].pc = "commit" => Len(jobs[i].outcome) = Len(jobs[i].users_to_process)
        /\ (jobs[i].pc = "idle" /\ jobs[i].end = "committed") =>
              \A k \in DOMAIN jobs[i].users_to_process :
                  /\ k \in DOMAIN jobs[i].outcome
                  /\ users[jobs[i].users_to_process[k]].status = OwnStatus(jobs[i].outcome[k])

C17_Witness ==
    \E i \in Slots :
        /\ jobs[i].pc = "idle" /\ jobs[i].end = "committed"
        /\ Len(jobs[i].outcome) = 2
        /\ ~Accepted(jobs[i].outcome[1])
        /\ Accepted(jobs[i].outcome[2])
        /\ jobs[i].users_to_process[1] > jobs[i].users_to_process[2]

\* C18: every row's status is 'pending', 'processed' or 'error'; a new row is
\* 'pending'; a step changes a row's status only from 'pending' to
\* 'processed' or 'error', and no row disappears.
C18_StatusTransitions ==
    [][ /\ \A r \in DOMAIN users' : users'[r].status \in {"pending", "processed", "error"}
        /\ \A r \in DOMAIN users' \ DOMAIN users : users'[r].status = "pending"
        /\ \A r \in DOMAIN users :
              /\ r \in DOMAIN users'
              /\ \/ users'[r].status = users[r].status
                 \/ /\ users[r].status = "pending"
                    /\ users'[r].status \in {"processed", "error"} ]_vars

C18_Witness ==
    /\ \E r \in DOMAIN users : users[r].status = "processed"
    /\ \E r \in DOMAIN users : users[r].status = "error"

\* C19: a row registered while an instance is in flight is stored 'pending'
\* and leaves the instance as it is; the instance selects and posts only rows
\* of its own read; and its commit keeps every later row unchanged.
C19_RegistrationDuringPass ==
    [][ /\ \A i \in Slots : (InFlight(i) /\ Len(users') > Len(users)) =>
              /\ jobs'[i] = jobs[i]
              /\ users'[Len(users')].status = "pending"
              /\ \A r \in DOMAIN users : users'[r] = users[r]
        /\ \A i \in Slots :
              /\ Range(jobs'[i].users_to_process) \subseteq DOMAIN jobs'[i].snapshot
              /\ Range(jobs'[i].calls) \subseteq DOMAIN jobs'[i].snapshot
        /\ \A i \in Slots : EndsAs(i, "committed") =>
              \A r \in DOMAIN users \ DOMAIN jobs[i].snapshot :
                  /\ r \in DOMAIN users'
                  /\ users'[r] = users[r]
                  /\ users'[r].status = "pending" ]_vars

C19_Witness ==
    \E i \in Slots : \E r \in DOMAIN users \ DOMAIN jobs[i].snapshot :
        /\ jobs[i].pc = "idle" /\ jobs[i].end = "committed"
        /\ users[r].status = "pending"
        /\ users[r].session_date <= jobs[i].target_date
        /\ \E q \in Range(jobs[i].calls) : users[q].status = "processed"

\* C20: while the trigger keeps firing and token, contact call and commit
\* keep succeeding again and again, every row that is 'pending' with
\* session_date <= today - 1 is eventually 'processed' or 'error'.
C20_NoEligibleRecordLost ==
    \A r \in 1..MaxUsers :
        (r \in DOMAIN users /\ users[r].status = "pending"
            /\ users[r].session_date <= today - 1)
        ~> (r \in DOMAIN users /\ users[r].status \in {"processed", "error"})

C20_Witness ==
    \E i \in Slots : \E k \in DOMAIN jobs[i].users_to_process :
        /\ jobs[i].pc = "idle" /\ jobs[i].end = "committed"
        /\ users[jobs[i].users_to_process[k]].status \in {"processed", "error"}
        /\ users[jobs[i].users_to_process[k]].session_date + 2 <= jobs[i].started
        /\ jobs[i].users_to_process[k] \in enrolled
        /\ users[jobs[i].users_to_process[k]].status = "error"

TypeOK ==
    /\ Len(users) <= MaxUsers
    /\ today \in Days
    /\ response \in {0, 201, 400, 500}
====
